---- MODULE Spec2Model ----
(***************************************************************************)
(* Model of the pipeline orchestration core of src/modules/core.py:        *)
(* the module registry (register / unregister), the lifecycle manager      *)
(* (initialize_all) and the execution engine (run_module / run_all).       *)
(*                                                                         *)
(* A module instance is an index in Instances; its name and its supported  *)
(* languages are fixed attributes of the instance.  What a module's        *)
(* initialize and process do on one invocation (return a value or raise)   *)
(* is chosen by the environment on every call.  The text argument is       *)
(* handed to process unchanged and is never inspected by the pipeline, so  *)
(* it is not part of the state.                                            *)
(*                                                                         *)
(* Python values are tagged records so that values of different Python     *)
(* types can be compared; messages are sequences of strings (the pieces of *)
(* the f-string that builds them).                                         *)
(***************************************************************************)
EXTENDS Integers, Sequences, FiniteSets, TLC

VARIABLES modules, config, initialized, initDone, last, resource, pc

vars == <<modules, config, initialized, initDone, last, resource, pc>>

---------------------------------------------------------------------------
(* Bounds and the universe of inputs                                       *)

NumInst == 3

Instances == 1..NumInst

NameSeq == <<"a", "b">>

LangSeq == <<{"en-US"}, {"fr-FR"}, {"en-US", "fr-FR"}>>

UnknownName == "zz"

Names == {NameSeq[k] : k \in 1..Len(NameSeq)}

AllNames == Names \cup {UnknownName}

Langs == {"en-US", "fr-FR"}

NoLang == "<absent>"

DefaultLanguage == "en-US"

---------------------------------------------------------------------------
(* Python values                                                           *)

PyNone == [py |-> "None"]

PyBool(b) == [py |-> "bool", b |-> b]

PyObj(v) == [py |-> "object", v |-> v]

PyDict(f) == [py |-> "dict", items |-> f]

ErrorDict(msg) == [py |-> "dict", error |-> msg]

NoValue == [py |-> "<no value>"]

NoExc == [type |-> "<none>"]

EmptyMap == [n \in {} |-> PyNone]

Boom == [type |-> "RuntimeError", msg |-> <<"boom">>]

Str(e) == e.msg

Returns(v) == [kind |-> "return", val |-> PyObj(v)]

Raises(e) == [kind |-> "raise", exc |-> e]

Outcomes == {Returns("r1"), Returns("r2"), Raises(Boom)}

Cfg(id) == [py |-> "dict", id |-> id]

EmptyCfg == Cfg("{}")

ConfigArgs == {PyNone,
               PyDict([n \in {"a"} |-> Cfg("c1")]),
               PyDict([n \in {"b", UnknownName} |->
                          IF n = "b" THEN Cfg("c2") ELSE Cfg("c1")])}

---------------------------------------------------------------------------
(* ProcessorModule                                                         *)

(* Instances 1..NumInst are modules of unspecified classes; instance -k is *)
(* the instance of the k-th concrete class of ClassSeq.                    *)
ClassSeq == <<"grammar", "sentiment", "voice", "completion", "summarize">>

ClassLangs ==
    <<{"en-US", "en-GB", "fr-FR", "de-DE", "es-ES", "pt-PT"},
      {"en-US", "en-GB"},
      {"en-US", "en-GB", "fr-FR", "de-DE", "es-ES", "ja-JP", "zh-CN"},
      {"en-US", "en-GB", "fr-FR", "de-DE", "es-ES", "it-IT", "pt-PT", "ru-RU",
       "zh-CN", "ja-JP"},
      {"en-US", "en-GB"}>>

ClassNames == {ClassSeq[k] : k \in DOMAIN ClassSeq}

InstanceOf(n) == 0 - (CHOOSE k \in DOMAIN ClassSeq : ClassSeq[k] = n)

name(i) == IF i < 0 THEN ClassSeq[0 - i] ELSE NameSeq[((i - 1) % Len(NameSeq)) + 1]

supported_languages(i) ==
    IF i < 0 THEN ClassLangs[0 - i] ELSE LangSeq[((i - 1) % Len(LangSeq)) + 1]

can_process_any(i, language) == TRUE

can_process_default(i, language) == DefaultLanguage \in supported_languages(i)

can_process(i, language) == language \in supported_languages(i)

---------------------------------------------------------------------------
(* The registry: a Python dict, i.e. an insertion-ordered sequence of      *)
(* bindings with pairwise distinct keys.                                   *)

Keys(m) == {m[k].name : k \in DOMAIN m}

IndexOf(m, n) == CHOOSE k \in DOMAIN m : m[k].name = n

Get(m, n) == m[IndexOf(m, n)].inst

DictSet_KeepFirst(m, n, i) ==
    IF n \in Keys(m) THEN m ELSE Append(m, [name |-> n, inst |-> i])

DictSet(m, n, i) ==
    IF n \in Keys(m)
    THEN [m EXCEPT ![IndexOf(m, n)] = [name |-> n, inst |-> i]]
    ELSE Append(m, [name |-> n, inst |-> i])

DictDel_Truncate(m, n) == SubSeq(m, 1, IndexOf(m, n) - 1)

DictDel(m, n) == SelectSeq(m, LAMBDA b : b.name # n)

KwargsGet_OtherDefault(lang) == IF lang = NoLang THEN "fr-FR" ELSE lang

KwargsGet(lang) == IF lang = NoLang THEN DefaultLanguage ELSE lang

Event(level, what, n) == [level |-> level, what |-> what, name |-> n]

NoCall == [op |-> "__init__", arg |-> "-", inst |-> 0, lang |-> NoLang,
           cfg |-> NoValue, names |-> << >>, env |-> NoValue,
           raised |-> NoExc, ret |-> NoValue,
           asked |-> << >>, processed |-> << >>, inits |-> << >>,
           log |-> << >>]

(* The attributes a concrete module sets in initialize: res is the state  *)
(* of its handle (tool, analyzer, recognizer, client, model), kind the     *)
(* provider or analyzer type it was configured with.                       *)
Unset == [res |-> "unset", kind |-> "-"]

---------------------------------------------------------------------------
(* Pipeline.__init__                                                       *)

Init ==
    /\ modules = << >>
    /\ config = EmptyMap
    /\ initialized = FALSE
    /\ initDone = {}
    /\ last = NoCall
    /\ resource = [n \in ClassNames |-> Unset]
    /\ pc = "library"

(* Pipeline.register                                                       *)
Register(i) ==
    /\ modules' = DictSet(modules, name(i), i)
    /\ last' = [NoCall EXCEPT
                  !.op = "register", !.arg = name(i), !.inst = i,
                  !.ret = PyNone,
                  !.log = (IF name(i) \in Keys(modules)
                           THEN <<Event("warning", "overwriting", name(i))>>
                           ELSE << >>)
                          \o <<Event("info", "registered", name(i))>>]
    /\ UNCHANGED <<config, initialized, initDone>>

(* Pipeline.unregister                                                     *)
Unregister(n) ==
    /\ modules' = IF n \in Keys(modules) THEN DictDel(modules, n) ELSE modules
    /\ last' = [NoCall EXCEPT
                  !.op = "unregister", !.arg = n,
                  !.ret = PyBool(n \in Keys(modules)),
                  !.log = IF n \in Keys(modules)
                          THEN <<Event("info", "unregistered", n)>>
                          ELSE <<Event("warning", "cannot unregister", n)>>]
    /\ UNCHANGED <<config, initialized, initDone>>

NotInitializedError ==
    [type |-> "RuntimeError",
     msg |-> <<"Pipeline not initialized. Call initialize_all() first.">>]

ModuleNotFound_KeyError(n) == [type |-> "KeyError", msg |-> <<"'", n, "'">>]

ModuleNotFound(n) ==
    [type |-> "ValueError", msg |-> <<"Module '", n, "' not found in pipeline">>]

InitializationFailed(n, e) ==
    [type |-> "RuntimeError", msg |-> <<"Module initialization failed: ", n>>,
     cause |-> e]

ConfigOr(arg) == IF arg = PyNone \/ arg = PyDict(EmptyMap) THEN EmptyMap ELSE arg.items

ConfigGet_Ignore(cfg, n) == EmptyCfg

ConfigGet(cfg, n) == IF n \in DOMAIN cfg THEN cfg[n] ELSE EmptyCfg

RECURSIVE InitLoop_Continue(_, _, _, _)
InitLoop_Continue(m, cfg, fails, k) ==
    IF k > Len(m)
    THEN [inits |-> << >>, raised |-> NoExc, log |-> << >>]
    ELSE LET n == m[k].name
             call == [inst |-> m[k].inst, name |-> n,
                      config |-> ConfigGet(cfg, n), ok |-> n \notin DOMAIN fails]
             rest == InitLoop_Continue(m, cfg, fails, k + 1)
         IN  IF n \in DOMAIN fails
             THEN [inits |-> <<call>> \o rest.inits,
                   raised |-> InitializationFailed(n, fails[n]),
                   log |-> <<Event("error", "failed to initialize", n)>> \o rest.log]
             ELSE [inits |-> <<call>> \o rest.inits,
                   raised |-> rest.raised,
                   log |-> <<Event("info", "initialized", n)>> \o rest.log]

(* The loop of initialize_all from position k of the registry on; fails   *)
(* maps the names whose initialize raises in this call to the exception.   *)
RECURSIVE InitLoop(_, _, _, _)
InitLoop(m, cfg, fails, k) ==
    IF k > Len(m)
    THEN [inits |-> << >>, raised |-> NoExc, log |-> << >>]
    ELSE LET n == m[k].name
             call == [inst |-> m[k].inst, name |-> n,
                      config |-> ConfigGet(cfg, n), ok |-> n \notin DOMAIN fails]
         IN  IF n \in DOMAIN fails
             THEN [inits |-> <<call>>,
                   raised |-> InitializationFailed(n, fails[n]),
                   log |-> <<Event("error", "failed to initialize", n)>>]
             ELSE LET rest == InitLoop(m, cfg, fails, k + 1)
                  IN  [inits |-> <<call>> \o rest.inits,
                       raised |-> rest.raised,
                       log |-> <<Event("info", "initialized", n)>> \o rest.log]

InitializeAll_FlagFirst(arg, fails) ==
    LET cfg == ConfigOr(arg)
        run == InitLoop(modules, cfg, fails, 1)
    IN  /\ config' = cfg
        /\ initDone' = initDone \cup
                         {run.inits[k].inst : k \in {j \in DOMAIN run.inits : run.inits[j].ok}}
        /\ initialized' = TRUE
        /\ last' = [NoCall EXCEPT
                      !.op = "initialize_all", !.cfg = arg,
                      !.raised = run.raised,
                      !.ret = IF run.raised = NoExc THEN PyNone ELSE NoValue,
                      !.inits = run.inits,
                      !.log = run.log]
        /\ UNCHANGED modules

InitializeAll_MergeConfig(arg, fails) ==
    LET new == ConfigOr(arg)
        cfg == [n \in DOMAIN config \cup DOMAIN new |->
                   IF n \in DOMAIN new THEN new[n] ELSE config[n]]
        run == InitLoop(modules, cfg, fails, 1)
    IN  /\ config' = cfg
        /\ initDone' = initDone \cup
                         {run.inits[k].inst : k \in {j \in DOMAIN run.inits : run.inits[j].ok}}
        /\ initialized' = IF run.raised = NoExc THEN TRUE ELSE initialized
        /\ last' = [NoCall EXCEPT
                      !.op = "initialize_all", !.cfg = arg,
                      !.raised = run.raised,
                      !.ret = IF run.raised = NoExc THEN PyNone ELSE NoValue,
                      !.inits = run.inits,
                      !.log = run.log]
        /\ UNCHANGED modules

InitializeAll_ResetOnFailure(arg, fails) ==
    LET cfg == ConfigOr(arg)
        run == InitLoop(modules, cfg, fails, 1)
    IN  /\ config' = cfg
        /\ initDone' = initDone \cup
                         {run.inits[k].inst : k \in {j \in DOMAIN run.inits : run.inits[j].ok}}
        /\ initialized' = (run.raised = NoExc)
        /\ last' = [NoCall EXCEPT
                      !.op = "initialize_all", !.cfg = arg,
                      !.raised = run.raised,
                      !.ret = IF run.raised = NoExc THEN PyNone ELSE NoValue,
                      !.inits = run.inits,
                      !.log = run.log]
        /\ UNCHANGED modules

(* Pipeline.initialize_all                                                 *)
InitializeAll(arg, fails) ==
    LET cfg == ConfigOr(arg)
        run == InitLoop(modules, cfg, fails, 1)
    IN  /\ config' = cfg
        /\ initDone' = initDone \cup
                         {run.inits[k].inst : k \in {j \in DOMAIN run.inits : run.inits[j].ok}}
        /\ initialized' = IF run.raised = NoExc THEN TRUE ELSE initialized
        /\ last' = [NoCall EXCEPT
                      !.op = "initialize_all", !.cfg = arg,
                      !.raised = run.raised,
                      !.ret = IF run.raised = NoExc THEN PyNone ELSE NoValue,
                      !.inits = run.inits,
                      !.log = run.log \o
                              (IF run.raised = NoExc
                               THEN <<Event("info", "initialization complete", "-")>>
                               ELSE << >>)]
        /\ UNCHANGED modules

RunModuleProcess_Isolated(call, out) ==
    IF out.kind = "raise"
    THEN [call EXCEPT !.ret = ErrorDict(Str(out.exc)),
                      !.log = <<Event("error", "error in module", call.arg)>>]
    ELSE [call EXCEPT !.ret = out.val]

(* The try block of run_module: call is the record of the call so far,    *)
(* out is what the module's process does.                                  *)
RunModuleProcess(call, out) ==
    IF out.kind = "raise"
    THEN [call EXCEPT !.raised = out.exc,
                      !.log = <<Event("error", "error in module", call.arg)>>]
    ELSE [call EXCEPT !.ret = out.val]

(* The call of run_module in the current state; out is what the module's  *)
(* process does if it is invoked.                                          *)
RunModuleCall(n, lang, out) ==
    LET language == KwargsGet(lang)
        call == [NoCall EXCEPT !.op = "run_module", !.arg = n, !.lang = lang]
    IN  IF ~initialized
        THEN [call EXCEPT !.raised = NotInitializedError]
        ELSE IF n \notin Keys(modules)
        THEN [call EXCEPT !.raised = ModuleNotFound(n)]
        ELSE LET module == Get(modules, n)
                 ask == <<[inst |-> module, language |-> language]>>
             IN  IF ~can_process(module, language)
                 THEN [call EXCEPT !.inst = module, !.asked = ask,
                                   !.ret = PyNone,
                                   !.log = <<Event("warning", "skipping", n)>>]
                 ELSE RunModuleProcess(
                         [call EXCEPT !.inst = module, !.asked = ask,
                                      !.processed = <<[inst |-> module, name |-> n,
                                                       outcome |-> out]>>],
                         out)

RunModule_DropsFailing(n, lang, out) ==
    /\ last' = RunModuleCall(n, lang, out)
    /\ modules' = IF RunModuleCall(n, lang, out).raised \notin {NoExc, NotInitializedError}
                  THEN DictDel(modules, n) ELSE modules
    /\ UNCHANGED <<config, initialized, initDone>>

(* Pipeline.run_module                                                     *)
RunModule(n, lang, out) ==
    /\ last' = RunModuleCall(n, lang, out)
    /\ UNCHANGED <<modules, config, initialized, initDone>>

RECURSIVE RunLoop_StopAtFailure(_, _, _, _)
RunLoop_StopAtFailure(m, language, outs, k) ==
    IF k > Len(m)
    THEN [results |-> EmptyMap, asked |-> << >>, processed |-> << >>, log |-> << >>]
    ELSE LET n == m[k].name
             module == m[k].inst
             ask == <<[inst |-> module, language |-> language]>>
             rest == IF can_process(module, language) /\ outs[n].kind = "raise"
                     THEN RunLoop_StopAtFailure(m, language, outs, Len(m) + 1)
                     ELSE RunLoop_StopAtFailure(m, language, outs, k + 1)
         IN  IF ~can_process(module, language)
             THEN [rest EXCEPT !.asked = ask \o rest.asked,
                               !.log = <<Event("info", "skipping", n)>> \o rest.log]
             ELSE LET entry == IF outs[n].kind = "raise"
                               THEN ErrorDict(Str(outs[n].exc))
                               ELSE outs[n].val
                  IN  [results |-> [x \in DOMAIN rest.results \cup {n} |->
                                       IF x = n THEN entry ELSE rest.results[x]],
                       asked |-> ask \o rest.asked,
                       processed |-> <<[inst |-> module, name |-> n,
                                        outcome |-> outs[n]]>> \o rest.processed,
                       log |-> (IF outs[n].kind = "raise"
                                THEN <<Event("error", "error running module", n)>>
                                ELSE <<Event("debug", "ran module", n)>>) \o rest.log]

(* The loop of run_all from position k of the registry on; outs maps each *)
(* registered name to what its module's process does if it is invoked.    *)
RECURSIVE RunLoop(_, _, _, _)
RunLoop(m, language, outs, k) ==
    IF k > Len(m)
    THEN [results |-> EmptyMap, asked |-> << >>, processed |-> << >>, log |-> << >>]
    ELSE LET n == m[k].name
             module == m[k].inst
             ask == <<[inst |-> module, language |-> language]>>
             rest == RunLoop(m, language, outs, k + 1)
         IN  IF ~can_process(module, language)
             THEN [rest EXCEPT !.asked = ask \o rest.asked,
                               !.log = <<Event("info", "skipping", n)>> \o rest.log]
             ELSE LET entry == IF outs[n].kind = "raise"
                               THEN ErrorDict(Str(outs[n].exc))
                               ELSE outs[n].val
                  IN  [results |-> [x \in DOMAIN rest.results \cup {n} |->
                                       IF x = n THEN entry ELSE rest.results[x]],
                       asked |-> ask \o rest.asked,
                       processed |-> <<[inst |-> module, name |-> n,
                                        outcome |-> outs[n]]>> \o rest.processed,
                       log |-> (IF outs[n].kind = "raise"
                                THEN <<Event("error", "error running module", n)>>
                                ELSE <<Event("debug", "ran module", n)>>) \o rest.log]

RunAll_NoGuard(lang, outs) ==
    LET call == [NoCall EXCEPT !.op = "run_all", !.lang = lang]
        run == RunLoop(modules, KwargsGet(lang), outs, 1)
    IN  /\ last' = [call EXCEPT !.ret = PyDict(run.results),
                                !.asked = run.asked,
                                !.processed = run.processed,
                                !.log = run.log]
        /\ UNCHANGED <<modules, config, initialized, initDone>>

(* Pipeline.run_all                                                        *)
RunAll(lang, outs) ==
    LET call == [NoCall EXCEPT !.op = "run_all", !.lang = lang]
        run == RunLoop(modules, KwargsGet(lang), outs, 1)
    IN  /\ last' =
             IF ~initialized
             THEN [call EXCEPT !.raised = NotInitializedError]
             ELSE [call EXCEPT !.ret = PyDict(run.results),
                               !.asked = run.asked,
                               !.processed = run.processed,
                               !.log = run.log]
        /\ UNCHANGED <<modules, config, initialized, initDone>>

Next ==
    \/ \E i \in Instances : Register(i) /\ UNCHANGED <<resource, pc>>
    \/ \E n \in AllNames : Unregister(n) /\ UNCHANGED <<resource, pc>>
    \/ \E arg \in ConfigArgs, failing \in SUBSET Keys(modules) :
          InitializeAll(arg, [n \in failing |-> Boom]) /\ UNCHANGED <<resource, pc>>
    \/ \E n \in AllNames, lang \in Langs \cup {NoLang}, out \in Outcomes :
          RunModule(n, lang, out) /\ UNCHANGED <<resource, pc>>
    \/ \E lang \in Langs \cup {NoLang}, outs \in [Keys(modules) -> Outcomes] :
          RunAll(lang, outs) /\ UNCHANGED <<resource, pc>>

Spec == Init /\ [][Next]_vars

---------------------------------------------------------------------------
(* The concrete modules (grammar.py, sentiment.py, voice.py,               *)
(* completion.py, summarize.py).  A module configuration is Cfg(id); its   *)
(* items are given by CfgItems.  When initialize runs, the environment     *)
(* says for the module whether its resource can be established: "ok",      *)
(* "import_error" (the library is not installed) or "error"; when process  *)
(* runs, whether the call into the resource works: "ok" or "error".        *)

CfgItems(c) ==
    CASE c.id = "api_key" -> [k \in {"api_key"} |-> "secret"]
      [] c.id = "alternative" -> [k \in {"provider", "analyzer"} |->
                                     IF k = "analyzer" THEN "transformer" ELSE "whisper"]
      [] c.id = "unknown" -> [k \in {"provider", "analyzer"} |-> "bogus"]
      [] OTHER -> [k \in {} |-> ""]

CfgOpt(c, key, default) ==
    IF key \in DOMAIN CfgItems(c) THEN CfgItems(c)[key] ELSE default

ImportError == [type |-> "ImportError", msg |-> <<"No module named ...">>]

ResourceError == [type |-> "Exception", msg |-> <<"resource failure">>]

AttributeError == [type |-> "AttributeError", msg |-> <<"object has no attribute ...">>]

TypeError == [type |-> "TypeError", msg |-> <<"'NoneType' object is not callable">>]

ValueError(text, what) == [type |-> "ValueError", msg |-> <<text, what>>]

Wrapped(prefix, e) ==
    [type |-> "RuntimeError", msg |-> <<prefix>> \o e.msg, cause |-> e]

NotProperlyInitialized(who) ==
    [type |-> "RuntimeError", msg |-> <<who, " not properly initialized">>]

InitOutcome(exc, res, kind) == [raised |-> exc, state |-> [res |-> res, kind |-> kind]]

(* GrammarChecker.initialize: a failure to reach the LanguageTool server   *)
(* is logged and leaves self.tool = None; nothing is raised.               *)
GrammarInitialize(cfg, e) ==
    InitOutcome(NoExc, IF e = "ok" THEN "ready" ELSE "none", "languagetool")

(* SentimentAnalyzer.initialize                                            *)
SentimentInitialize(cfg, e) ==
    LET kind == CfgOpt(cfg, "analyzer", "vader")
        prefix == "Could not initialize sentiment analyzer: "
    IN  IF kind \notin {"vader", "transformer"}
        THEN InitOutcome(Wrapped(prefix,
                 ValueError("Unknown sentiment analyzer type: ", kind)), "none", kind)
        ELSE IF e = "import_error" THEN InitOutcome(ImportError, "none", kind)
        ELSE IF e = "error" THEN InitOutcome(Wrapped(prefix, ResourceError), "none", kind)
        ELSE InitOutcome(NoExc, "ready", kind)

(* VoiceToText.initialize                                                  *)
VoiceInitialize(cfg, e) ==
    LET kind == CfgOpt(cfg, "provider", "google")
        prefix == "Could not initialize voice-to-text: "
    IN  IF kind \notin {"google", "whisper"}
        THEN InitOutcome(Wrapped(prefix,
                 ValueError("Unknown voice provider: ", kind)), "none", kind)
        ELSE IF e = "import_error" THEN InitOutcome(ImportError, "none", kind)
        ELSE IF e = "error" THEN InitOutcome(Wrapped(prefix, ResourceError), "none", kind)
        ELSE InitOutcome(NoExc, "ready", kind)

(* TextCompletion.initialize; envkey says whether NVIDIA_API_KEY is set in *)
(* the environment of the process.                                         *)
CompletionInitialize(cfg, e, envkey) ==
    LET kind == CfgOpt(cfg, "provider", "nvidia")
        api_key == CfgOpt(cfg, "api_key", IF envkey THEN "secret" ELSE "")
        prefix == "Could not initialize text completion: "
    IN  IF kind \notin {"nvidia", "huggingface"}
        THEN InitOutcome(Wrapped(prefix, ValueError("Unknown provider: ", kind)),
                         "none", kind)
        ELSE IF e = "import_error" THEN InitOutcome(ImportError, "none", kind)
        ELSE IF kind = "nvidia" /\ api_key = ""
        THEN InitOutcome(Wrapped(prefix, ValueError("Nvidia API key is required", "")),
                         "none", kind)
        ELSE IF e = "error" THEN InitOutcome(Wrapped(prefix, ResourceError), "none", kind)
        ELSE InitOutcome(NoExc, "ready", kind)

(* Summarizer.initialize                                                   *)
SummarizeInitialize(cfg, e) ==
    IF e = "import_error" THEN InitOutcome(ImportError, "none", "transformers")
    ELSE IF e = "error"
    THEN InitOutcome(Wrapped("Could not initialize summarization model: ", ResourceError),
                     "none", "transformers")
    ELSE InitOutcome(NoExc, "ready", "transformers")

(* initialize of the concrete module named n, on a fresh instance          *)
ModuleInitialize(n, cfg, e, envkey) ==
    CASE n = "grammar" -> GrammarInitialize(cfg, e)
      [] n = "sentiment" -> SentimentInitialize(cfg, e)
      [] n = "voice" -> VoiceInitialize(cfg, e)
      [] n = "completion" -> CompletionInitialize(cfg, e, envkey)
      [] n = "summarize" -> SummarizeInitialize(cfg, e)

GrammarFallback == PyObj("issues_count 0, corrected_text = text")

(* GrammarChecker.process: without a tool, and when the check fails, the   *)
(* text is returned unchecked as a regular result.                         *)
GrammarProcess(st, e) ==
    IF st.res = "unset" THEN Raises(AttributeError)
    ELSE IF st.res # "ready" THEN [kind |-> "return", val |-> GrammarFallback]
    ELSE IF e = "error" THEN [kind |-> "return", val |-> GrammarFallback]
    ELSE Returns("issues")

(* SentimentAnalyzer.process                                               *)
SentimentProcess(st, e) ==
    IF st.res = "unset" THEN Raises(AttributeError)
    ELSE IF st.kind \in {"vader", "transformer"} /\ st.res # "ready"
    THEN Raises(NotProperlyInitialized("SentimentAnalyzer"))
    ELSE IF st.kind \notin {"vader", "transformer"} THEN Raises(TypeError)
    ELSE IF e = "error" THEN Raises(ResourceError)
    ELSE Returns("sentiment")

(* VoiceToText.process: with a provider that is neither "google" nor       *)
(* "whisper" no branch of the try block is taken and None is returned.     *)
VoiceProcess(st, e) ==
    IF st.res = "unset" THEN Raises(AttributeError)
    ELSE IF st.kind = "google" /\ st.res # "ready"
    THEN Raises(NotProperlyInitialized("Voice-to-text"))
    ELSE IF st.kind = "whisper" /\ st.res # "ready" THEN Raises(AttributeError)
    ELSE IF st.kind \notin {"google", "whisper"} THEN [kind |-> "return", val |-> PyNone]
    ELSE IF e = "error" THEN Raises(ResourceError)
    ELSE Returns("transcript")

(* TextCompletion.process                                                  *)
CompletionProcess(st, e) ==
    IF st.res = "unset" THEN Raises(AttributeError)
    ELSE IF st.kind \in {"nvidia", "huggingface"} /\ st.res # "ready"
    THEN Raises(NotProperlyInitialized("TextCompletion"))
    ELSE IF st.kind \notin {"nvidia", "huggingface"}
    THEN Raises(Wrapped("Could not generate text completion: ", AttributeError))
    ELSE IF e = "error"
    THEN Raises(Wrapped("Could not generate text completion: ", ResourceError))
    ELSE Returns("completion")

(* Summarizer.process                                                      *)
SummarizeProcess(st, e) ==
    IF st.res = "unset" THEN Raises(AttributeError)
    ELSE IF st.res # "ready" THEN Raises(NotProperlyInitialized("Summarizer"))
    ELSE IF e = "error" THEN Raises(ResourceError)
    ELSE Returns("summary")

(* process of the concrete module named n in module state st               *)
ModuleProcess(n, st, e) ==
    CASE n = "grammar" -> GrammarProcess(st, e)
      [] n = "sentiment" -> SentimentProcess(st, e)
      [] n = "voice" -> VoiceProcess(st, e)
      [] n = "completion" -> CompletionProcess(st, e)
      [] n = "summarize" -> SummarizeProcess(st, e)

---------------------------------------------------------------------------
(* The command line program (main.py) and its server (server.py)           *)

MaxEnabled == 1

MaxNames == 2

SeqsUpTo(S, n) == UNION {[1..k -> S] : k \in 0..n}

(* Lists that name nothing twice, and sets with at most one element.       *)
DistinctSeqsUpTo(S, n) ==
    {q \in SeqsUpTo(S, n) : \A i, j \in DOMAIN q : q[i] = q[j] => i = j}

AtMostOne(S) == {{}} \cup {{x} : x \in S}

(* The request's language: absent (the default applies) or one that not     *)
(* every module supports.                                                    *)
RequestLangs == {NoLang, "fr-FR"}

DefaultEnabled == <<"grammar", "sentiment", "voice", "completion">>

module_info == {"grammar", "sentiment", "voice", "completion"}

(* The parsed configuration file: keys are the keys it has.                *)
AppConfig(keys, enabled, mods) ==
    [py |-> "dict", keys |-> keys, enabled_modules |-> enabled, modules |-> mods]

ModuleSections ==
    {[n \in {"completion"} |-> Cfg("api_key")],
     [n \in {"completion", "sentiment", "voice"} |->
         IF n = "completion" THEN Cfg("unknown") ELSE Cfg("alternative")]}

AppConfigs ==
    {AppConfig({"enabled_modules", "modules"}, e, m) :
        e \in SeqsUpTo(ClassNames, MaxEnabled), m \in ModuleSections}
    \cup {AppConfig({"enabled_modules"}, e, EmptyMap) : e \in SeqsUpTo(ClassNames, MaxEnabled)}
    \cup {AppConfig({}, << >>, EmptyMap)}

Elems(q) == {q[k] : k \in DOMAIN q}

Env(bad, how) == [n \in ClassNames |-> IF n \in bad THEN how ELSE "ok"]

EnabledModules(cfg) ==
    IF "enabled_modules" \in cfg.keys THEN cfg.enabled_modules ELSE DefaultEnabled

ModulesSection(cfg) ==
    IF "modules" \in cfg.keys THEN PyDict(cfg.modules) ELSE PyDict(EmptyMap)

SystemExit(code) == [type |-> "SystemExit", msg |-> <<code>>]

RECURSIVE LoadLoop_StopAtFailure(_, _, _, _)
LoadLoop_StopAtFailure(enabled, broken, m, k) ==
    IF k > Len(enabled)
    THEN [modules |-> m, log |-> << >>]
    ELSE LET mod_name == enabled[k]
         IN  IF mod_name \in module_info /\ mod_name \in broken
             THEN [modules |-> m,
                   log |-> <<Event("error", "failed to load", mod_name)>>]
             ELSE LET rest == LoadLoop_StopAtFailure(enabled, broken,
                                 IF mod_name \in module_info
                                 THEN DictSet(m, mod_name, InstanceOf(mod_name)) ELSE m,
                                 k + 1)
                  IN  [rest EXCEPT !.log = <<Event("info", "seen", mod_name)>> \o rest.log]

(* The loop of create_pipeline over the enabled module names from position *)
(* k on, with registry m so far; broken is the set of modules whose import  *)
(* or construction fails.                                                   *)
RECURSIVE LoadLoop(_, _, _, _)
LoadLoop(enabled, broken, m, k) ==
    IF k > Len(enabled)
    THEN [modules |-> m, log |-> << >>]
    ELSE LET mod_name == enabled[k]
         IN  IF mod_name \in module_info
             THEN IF mod_name \in broken
                  THEN LET rest == LoadLoop(enabled, broken, m, k + 1)
                       IN  [rest EXCEPT !.log =
                               <<Event("error", "failed to load", mod_name)>> \o rest.log]
                  ELSE LET rest == LoadLoop(enabled, broken,
                                      DictSet(m, mod_name, InstanceOf(mod_name)), k + 1)
                       IN  [rest EXCEPT !.log =
                               (IF mod_name \in Keys(m)
                                THEN <<Event("warning", "overwriting", mod_name)>>
                                ELSE << >>)
                               \o <<Event("info", "registered", mod_name)>> \o rest.log]
             ELSE LET rest == LoadLoop(enabled, broken, m, k + 1)
                  IN  [rest EXCEPT !.log =
                          <<Event("warning", "not recognized", mod_name)>> \o rest.log]

(* create_pipeline; env says for each module whether its resource can be   *)
(* established, envkey whether NVIDIA_API_KEY is set.                       *)
CreatePipeline(cfg, broken, env, envkey) ==
    LET load == LoadLoop(EnabledModules(cfg), broken, << >>, 1)
        arg == ModulesSection(cfg)
        mcfg == ConfigOr(arg)
        init(n) == ModuleInitialize(n, ConfigGet(mcfg, n), env[n], envkey)
        fails == [n \in {x \in Keys(load.modules) : init(x).raised # NoExc} |->
                     init(n).raised]
        run == InitLoop(load.modules, mcfg, fails, 1)
        invoked == {run.inits[k].name : k \in DOMAIN run.inits}
    IN  /\ pc = "start"
        /\ modules' = load.modules
        /\ config' = mcfg
        /\ initDone' = {run.inits[k].inst : k \in {j \in DOMAIN run.inits : run.inits[j].ok}}
        /\ initialized' = (run.raised = NoExc)
        /\ resource' = [n \in ClassNames |-> IF n \in invoked THEN init(n).state ELSE Unset]
        /\ pc' = IF run.raised = NoExc THEN "ready" ELSE "exit"
        /\ last' = [NoCall EXCEPT
                      !.op = "create_pipeline", !.cfg = cfg,
                      !.env = [broken |-> broken,
                               unavailable |-> {n \in ClassNames : env[n] # "ok"}],
                      !.inits = run.inits,
                      !.raised = IF run.raised = NoExc THEN NoExc ELSE SystemExit("1"),
                      !.ret = IF run.raised = NoExc THEN PyObj("pipe") ELSE NoValue,
                      !.log = load.log \o run.log \o
                              (IF run.raised = NoExc
                               THEN <<Event("info", "initialization complete", "-")>>
                               ELSE <<Event("error", "failed to initialize pipeline", "-")>>)]

Response(status, body) == [py |-> "response", status |-> status, json |-> body]

NotFoundEntry(n) == ErrorDict(<<"Module ", n, " not found">>)

RECURSIVE ServerLoop_Isolated(_, _, _, _)
ServerLoop_Isolated(names, language, outs, k) ==
    IF k > Len(names)
    THEN [results |-> EmptyMap, asked |-> << >>, processed |-> << >>,
          raised |-> NoExc, log |-> << >>]
    ELSE LET n == names[k]
             call == RunModuleCall(n, language, outs[n])
             rest == ServerLoop_Isolated(names, language, outs, k + 1)
             put(v) == [x \in DOMAIN rest.results \cup {n} |->
                           IF x = n /\ n \notin DOMAIN rest.results THEN v
                           ELSE rest.results[x]]
         IN  IF n \notin Keys(modules)
             THEN [rest EXCEPT !.results = put(NotFoundEntry(n))]
             ELSE [rest EXCEPT !.results = put(IF call.raised # NoExc
                                               THEN ErrorDict(Str(call.raised))
                                               ELSE call.ret),
                               !.asked = call.asked \o rest.asked,
                               !.processed = call.processed \o rest.processed,
                               !.log = call.log \o rest.log]

(* The loop of process_text over the requested module names from position *)
(* k on; outs maps each registered name to what its process does.          *)
RECURSIVE ServerLoop(_, _, _, _)
ServerLoop(names, language, outs, k) ==
    IF k > Len(names)
    THEN [results |-> EmptyMap, asked |-> << >>, processed |-> << >>,
          raised |-> NoExc, log |-> << >>]
    ELSE LET n == names[k]
         IN  IF n \notin Keys(modules)
             THEN LET rest == ServerLoop(names, language, outs, k + 1)
                  IN  [rest EXCEPT !.results =
                          [x \in DOMAIN rest.results \cup {n} |->
                              IF x = n /\ n \notin DOMAIN rest.results
                              THEN NotFoundEntry(n) ELSE rest.results[x]]]
             ELSE LET call == RunModuleCall(n, language, outs[n])
                  IN  IF call.raised # NoExc
                      THEN [results |-> EmptyMap, asked |-> call.asked,
                            processed |-> call.processed,
                            raised |-> call.raised, log |-> call.log]
                      ELSE LET rest == ServerLoop(names, language, outs, k + 1)
                           IN  [results |->
                                   [x \in DOMAIN rest.results \cup {n} |->
                                       IF x = n /\ n \notin DOMAIN rest.results
                                       THEN call.ret ELSE rest.results[x]],
                                asked |-> call.asked \o rest.asked,
                                processed |-> call.processed \o rest.processed,
                                raised |-> rest.raised,
                                log |-> call.log \o rest.log]

(* process_text of server.py (POST /api/process) on the pipeline handed to *)
(* start_server; names is the modules list of the request (empty when      *)
(* absent), env says for each module whether its resource works now.       *)
ProcessText(names, lang, env) ==
    LET language == KwargsGet(lang)
        outs == [n \in Keys(modules) |-> ModuleProcess(n, resource[n], env[n])]
        call == [NoCall EXCEPT !.op = "process_text", !.names = names, !.lang = lang,
                               !.env = [broken |-> {},
                                        unavailable |-> {n \in ClassNames : env[n] # "ok"}]]
        some == ServerLoop(names, language, outs, 1)
        all == RunLoop(modules, language, outs, 1)
    IN  /\ pc = "ready"
        /\ last' =
             IF names # << >>
             THEN [call EXCEPT
                     !.asked = some.asked, !.processed = some.processed,
                     !.log = some.log,
                     !.ret = IF some.raised # NoExc
                             THEN Response(500, ErrorDict(Str(some.raised)))
                             ELSE Response(200, PyDict(some.results))]
             ELSE IF ~initialized
             THEN [call EXCEPT !.ret = Response(500, ErrorDict(Str(NotInitializedError)))]
             ELSE [call EXCEPT
                     !.asked = all.asked, !.processed = all.processed,
                     !.log = all.log,
                     !.ret = Response(200, PyDict(all.results))]
        /\ UNCHANGED <<modules, config, initialized, initDone, resource, pc>>

AppInit ==
    /\ modules = << >>
    /\ config = EmptyMap
    /\ initialized = FALSE
    /\ initDone = {}
    /\ last = NoCall
    /\ resource = [n \in ClassNames |-> Unset]
    /\ pc = "start"

AppNext ==
    \/ \E cfg \in AppConfigs :
          \E broken \in AtMostOne(module_info \cap Elems(EnabledModules(cfg))) :
             \E bad \in AtMostOne((module_info \cap Elems(EnabledModules(cfg))) \ broken),
                how \in {"import_error", "error"},
                envkey \in BOOLEAN :
                CreatePipeline(cfg, broken, Env(bad, how), envkey)
    \/ \E names \in DistinctSeqsUpTo(Keys(modules) \cup {UnknownName}, MaxNames),
          lang \in RequestLangs :
          \E bad \in AtMostOne(IF names = << >> THEN Keys(modules)
                                ELSE Elems(names) \cap Keys(modules)) :
             ProcessText(names, lang, Env(bad, "error"))

AppSpec == AppInit /\ [][AppNext]_vars

---------------------------------------------------------------------------
(* Properties                                                              *)

Bound(m, n) == IF n \in Keys(m) THEN Get(m, n) ELSE 0

Capable(m, language) ==
    {k \in DOMAIN m : language \in supported_languages(m[k].inst)}

(* C1: fault isolation in run_all.  On an initialized pipeline run_all     *)
(* does not raise, process is invoked on every registered module that      *)
(* supports the request language, the entry of a module whose process      *)
(* raised is the error marker carrying the message of that failure, and    *)
(* the entry of a module whose process returned is the returned value.     *)
C1_FaultIsolation ==
    (last.op = "run_all" /\ initialized) =>
        LET language == IF last.lang = NoLang THEN "en-US" ELSE last.lang
        IN  /\ last.raised = NoExc
            /\ last.ret.py = "dict"
            /\ \A k \in Capable(modules, language) :
                  \E j \in DOMAIN last.processed :
                      last.processed[j].inst = modules[k].inst
            /\ \A j \in DOMAIN last.processed :
                  LET p == last.processed[j]
                  IN  /\ p.name \in DOMAIN last.ret.items
                      /\ p.outcome.kind = "raise" =>
                            last.ret.items[p.name] = [py |-> "dict", error |-> p.outcome.exc.msg]
                      /\ p.outcome.kind = "return" =>
                            last.ret.items[p.name] = p.outcome.val

C1_Witness ==
    /\ last.op = "run_all"
    /\ initialized
    /\ Len(last.processed) = 2
    /\ last.processed[1].outcome.kind = "raise"
    /\ last.processed[2].outcome.kind = "return"
    /\ last.ret.items[last.processed[2].name] = last.processed[2].outcome.val

(* C2: capability gating in run_all.  On an initialized pipeline the keys  *)
(* of the mapping returned by run_all(text, language=L) are exactly the    *)
(* registered names whose module supports L, and process is invoked on no  *)
(* module that does not support L.                                         *)
C2_CapabilityGating ==
    (last.op = "run_all" /\ initialized /\ last.lang \in Langs) =>
        /\ DOMAIN last.ret.items =
              {modules[k].name : k \in Capable(modules, last.lang)}
        /\ \A j \in DOMAIN last.processed :
              last.lang \in supported_languages(last.processed[j].inst)

C2_Witness ==
    /\ last.op = "run_all"
    /\ initialized
    /\ last.lang \in Langs
    /\ Len(modules) = 2
    /\ Cardinality(Capable(modules, last.lang)) = 1
    /\ Cardinality(DOMAIN last.ret.items) = 1

(* C3: execution guard.  While the initialized flag is false, run_all and  *)
(* run_module raise the not-initialized error, return nothing, and invoke  *)
(* neither can_process nor process; for run_module also when the name is   *)
(* not registered.                                                         *)
C3_ExecutionGuard ==
    (last.op \in {"run_all", "run_module"} /\ ~initialized) =>
        /\ last.raised.type = "RuntimeError"
        /\ last.raised.msg = <<"Pipeline not initialized. Call initialize_all() first.">>
        /\ last.ret = NoValue
        /\ last.asked = << >>
        /\ last.processed = << >>

C3_Witness ==
    /\ ~initialized
    /\ last.op = "run_module"
    /\ last.arg \notin Keys(modules)
    /\ Len(modules) > 0
    /\ last.raised = NotInitializedError

(* C4: an initialize_all call in which some module's initialize raises     *)
(* ends with the fatal error naming that module and, whatever happened     *)
(* before, with the initialized flag false.                                *)
C4_FailedInitLeavesUninitialized ==
    (last.op = "initialize_all" /\ last.raised # NoExc) =>
        /\ last.raised.msg = <<"Module initialization failed: ",
                               last.inits[Len(last.inits)].name>>
        /\ ~initialized

(* C5: lifecycle ordering.  process is invoked only on a module instance   *)
(* whose initialize has been invoked by initialize_all and has completed.  *)
C5_ProcessOnlyAfterInitialize ==
    \A j \in DOMAIN last.processed : last.processed[j].inst \in initDone

(* C6: run_module language skip.  On an initialized pipeline, run_module   *)
(* on a registered module that does not support the requested language L   *)
(* returns None, does not raise and does not invoke process.               *)
C6_RunModuleSkip ==
    (/\ last.op = "run_module"
     /\ initialized
     /\ last.arg \in Keys(modules)
     /\ last.lang \in Langs
     /\ last.lang \notin supported_languages(Bound(modules, last.arg))) =>
        /\ last.ret = PyNone
        /\ last.raised = NoExc
        /\ last.processed = << >>

C6_Witness ==
    /\ last.op = "run_module"
    /\ initialized
    /\ last.arg \in Keys(modules)
    /\ last.lang \in Langs
    /\ last.lang \notin supported_languages(Bound(modules, last.arg))
    /\ last.ret = PyNone

(* C7: run_module is not fault-isolated.  On an initialized pipeline, when *)
(* the named module is registered and supports the language, process is    *)
(* invoked once; if it raises, run_module raises that same exception and   *)
(* returns nothing, and if it returns, run_module returns that value.      *)
C7_RunModulePropagates ==
    (/\ last.op = "run_module"
     /\ initialized
     /\ last.arg \in Keys(modules)
     /\ (IF last.lang = NoLang THEN "en-US" ELSE last.lang)
           \in supported_languages(Bound(modules, last.arg))) =>
        /\ Len(last.processed) = 1
        /\ last.processed[1].inst = Bound(modules, last.arg)
        /\ LET o == last.processed[1].outcome
           IN  /\ o.kind = "raise" => (last.raised = o.exc /\ last.ret = NoValue)
               /\ o.kind = "return" => (last.ret = o.val /\ last.raised = NoExc)

C7_Witness ==
    /\ last.op = "run_module"
    /\ initialized
    /\ Len(last.processed) = 1
    /\ last.processed[1].outcome.kind = "raise"
    /\ last.raised = last.processed[1].outcome.exc

(* C8: module not found.  On an initialized pipeline, run_module with a    *)
(* name that is not registered raises the module-not-found error           *)
(* (ValueError naming the module), invokes no process, and leaves the      *)
(* registry, the config and the initialized flag unchanged.                *)
C8_ModuleNotFound ==
    [][(/\ last'.op = "run_module"
        /\ initialized
        /\ last'.arg \notin Keys(modules)) =>
           /\ last'.raised.type = "ValueError"
           /\ last'.raised.msg = <<"Module '", last'.arg, "' not found in pipeline">>
           /\ last'.ret = NoValue
           /\ last'.asked = << >>
           /\ last'.processed = << >>
           /\ modules' = modules
           /\ config' = config
           /\ initialized' = initialized]_vars

C8_Witness ==
    /\ last.op = "run_module"
    /\ initialized
    /\ last.arg \notin Keys(modules)
    /\ \E i \in initDone : name(i) = last.arg
    /\ last.raised.type = "ValueError"
    /\ last.processed = << >>

(* C9: registry uniqueness and overwrite.  The names bound in the registry *)
(* are pairwise distinct; after every call a name is bound to the instance *)
(* given to register if the call registered that name, is unbound if the   *)
(* call unregistered it, and keeps its binding otherwise; registering a    *)
(* bound name does not raise and logs a warning.                           *)
C9_RegistryOverwrite ==
    [][/\ \A k1, k2 \in DOMAIN modules' :
             modules'[k1].name = modules'[k2].name => k1 = k2
       /\ \A n \in AllNames :
             Bound(modules', n) =
                IF last'.op = "register" /\ last'.arg = n THEN last'.inst
                ELSE IF last'.op = "unregister" /\ last'.arg = n THEN 0
                ELSE Bound(modules, n)
       /\ (last'.op = "register" /\ last'.arg \in Keys(modules)) =>
             /\ last'.raised = NoExc
             /\ \E e \in DOMAIN last'.log :
                   last'.log[e].level = "warning" /\ last'.log[e].name = last'.arg]_vars

C9_Witness ==
    /\ last.op = "register"
    /\ \E e \in DOMAIN last.log : last.log[e].level = "warning"
    /\ Len(modules) = 2
    /\ Bound(modules, last.arg) = last.inst
    /\ last.inst \notin initDone
    /\ \E i \in initDone : name(i) = last.arg

(* C10: unregister never raises and returns true exactly when the name was *)
(* bound before the call; then that binding and no other is removed, and   *)
(* otherwise the registry is unchanged.                                    *)
C10_Unregister ==
    [][last'.op = "unregister" =>
          /\ last'.raised = NoExc
          /\ last'.ret = [py |-> "bool", b |-> (last'.arg \in Keys(modules))]
          /\ last'.arg \in Keys(modules) =>
                /\ Keys(modules') = Keys(modules) \ {last'.arg}
                /\ Len(modules') = Len(modules) - 1
                /\ \A n \in Keys(modules') : Bound(modules', n) = Bound(modules, n)
          /\ last'.arg \notin Keys(modules) => modules' = modules]_vars

C10_Witness ==
    /\ last.op = "unregister"
    /\ last.ret = PyBool(TRUE)
    /\ Len(modules) = 1
    /\ last.arg \notin Keys(modules)

(* C11: fail-fast without rollback.  When initialize_all raises, the     *)
(* initialize calls it made are those of the registry in order up to and   *)
(* including the first module F whose initialize raised; every module      *)
(* before F completed its initialize and stays initialized, no module      *)
(* after F was touched, and the error names F.                             *)
C11_FailFastNoRollback ==
    (last.op = "initialize_all" /\ last.raised # NoExc) =>
        LET f == Len(last.inits)
        IN  /\ f >= 1
            /\ f <= Len(modules)
            /\ \A k \in 1..f :
                  /\ last.inits[k].inst = modules[k].inst
                  /\ k < f => (last.inits[k].ok /\ modules[k].inst \in initDone)
            /\ ~last.inits[f].ok
            /\ last.raised.type = "RuntimeError"
            /\ last.raised.msg = <<"Module initialization failed: ", modules[f].name>>

C11_Witness ==
    /\ last.op = "initialize_all"
    /\ last.raised # NoExc
    /\ Len(last.inits) = 2
    /\ last.inits[1].ok
    /\ last.inits[1].inst \in initDone
    /\ last.raised.msg = <<"Module initialization failed: ", modules[2].name>>

(* C12: a successful initialize_all invokes initialize exactly once on     *)
(* every registered module, in registry order, with config[name] when the  *)
(* argument has an entry for the name and with the empty mapping otherwise *)
(* (also when the argument is omitted).                                    *)
C12_InitializeEachOnce ==
    (last.op = "initialize_all" /\ last.raised = NoExc) =>
        /\ Len(last.inits) = Len(modules)
        /\ \A k \in DOMAIN modules :
              /\ last.inits[k].inst = modules[k].inst
              /\ last.inits[k].name = modules[k].name
              /\ last.inits[k].config =
                    IF last.cfg # PyNone /\ modules[k].name \in DOMAIN last.cfg.items
                    THEN last.cfg.items[modules[k].name]
                    ELSE [py |-> "dict", id |-> "{}"]

C12_Witness ==
    /\ last.op = "initialize_all"
    /\ last.raised = NoExc
    /\ Len(last.inits) = 2
    /\ last.cfg # PyNone
    /\ UnknownName \in DOMAIN last.cfg.items
    /\ \E j \in 1..2 : last.inits[j].config = Cfg("c2")
    /\ \E j \in 1..2 : last.inits[j].config = EmptyCfg

(* C13: the initialized flag starts false, changes only in an              *)
(* initialize_all call that completes without raising, and is true after   *)
(* every such call.                                                        *)
C13_InitializedFlag ==
    /\ ~initialized
    /\ [][/\ initialized' # initialized =>
                (last'.op = "initialize_all" /\ last'.raised = NoExc)
          /\ (last'.op = "initialize_all" /\ last'.raised = NoExc) => initialized']_vars

C13_Witness ==
    /\ initialized
    /\ last.op = "initialize_all"
    /\ last.raised = NoExc
    /\ Len(modules) > 0

(* C16: run_module and run_all leave modules, config and initialized       *)
(* unchanged on every outcome; these are written only by register,         *)
(* unregister and initialize_all.                                          *)
C16_RunLeavesPipelineState ==
    [][/\ last'.op \in {"run_module", "run_all"} =>
             (modules' = modules /\ config' = config /\ initialized' = initialized)
       /\ (modules' # modules \/ config' # config \/ initialized' # initialized) =>
             last'.op \in {"register", "unregister", "initialize_all"}]_vars

C16_Witness ==
    /\ last.op = "run_module"
    /\ last.raised = Boom
    /\ Len(modules) = 2
    /\ last.arg \in Keys(modules)
    /\ config # EmptyMap

(* C17: without a language option run_module and run_all gate on "en-US":  *)
(* a module that does not list "en-US" is skipped (None from run_module,   *)
(* no entry in run_all) and every module that lists it is run.             *)
C17_DefaultLanguage ==
    (initialized /\ last.lang = NoLang) =>
        /\ (last.op = "run_module" /\ last.arg \in Keys(modules)) =>
              IF "en-US" \in supported_languages(Bound(modules, last.arg))
              THEN Len(last.processed) = 1
              ELSE last.ret = PyNone /\ last.raised = NoExc /\ last.processed = << >>
        /\ last.op = "run_all" =>
              /\ DOMAIN last.ret.items =
                    {modules[k].name : k \in Capable(modules, "en-US")}
              /\ {last.processed[j].inst : j \in DOMAIN last.processed} =
                    {modules[k].inst : k \in Capable(modules, "en-US")}

C17_Witness ==
    /\ initialized
    /\ last.op = "run_all"
    /\ last.lang = NoLang
    /\ Len(modules) = 2
    /\ Len(last.processed) = 1
    /\ supported_languages(last.processed[1].inst) = {"en-US"}

(* C18: every initialize_all call, also a repeated one, invokes initialize *)
(* on the registered modules again whether or not they were initialized    *)
(* before, and leaves config equal to the mapping given to that call (the  *)
(* empty mapping when omitted), not merged with the earlier one.           *)
C18_Reinitialize ==
    [][last'.op = "initialize_all" =>
          /\ config' = IF last'.cfg = PyNone THEN EmptyMap ELSE last'.cfg.items
          /\ Len(last'.inits) >= 1 <=> Len(modules) >= 1
          /\ \A k \in DOMAIN last'.inits : last'.inits[k].inst = modules[k].inst
          /\ last'.raised = NoExc => Len(last'.inits) = Len(modules)]_vars

C18_Witness ==
    /\ last.op = "initialize_all"
    /\ initialized
    /\ last.cfg = PyNone
    /\ config = EmptyMap
    /\ Len(last.inits) >= 1
    /\ ~last.inits[Len(last.inits)].ok
    /\ last.inits[Len(last.inits)].inst \in initDone

(* C14: a concrete module whose underlying resource cannot be established  *)
(* during initialize makes initialize fail, so that the start of a         *)
(* pipeline containing it aborts and initialized is not set: after         *)
(* create_pipeline, every module whose initialize was invoked and whose    *)
(* resource is not established has a failed initialize, and the pipeline   *)
(* is not initialized.  GrammarChecker.initialize violates it.             *)
C14_InitializeFailsWithoutResource ==
    last.op = "create_pipeline" =>
        \A k \in DOMAIN last.inits :
            resource[last.inits[k].name].res # "ready" =>
                /\ ~last.inits[k].ok
                /\ last.raised # NoExc
                /\ ~initialized

(* C15: process of a concrete module raises whenever its resource was not  *)
(* established by initialize or errors during the call, so that in run_all *)
(* (a request without a module list) such a module appears as an error     *)
(* marker and never as a normal result.  GrammarChecker.process violates   *)
(* it.                                                                     *)
C15_ProcessFailsWithoutResource ==
    (last.op = "process_text" /\ last.names = << >>) =>
        \A k \in DOMAIN last.processed :
            LET n == last.processed[k].name
            IN  (resource[n].res # "ready" \/ n \in last.env.unavailable) =>
                    /\ last.processed[k].outcome.kind = "raise"
                    /\ last.ret.json.py = "dict"
                    /\ "items" \in DOMAIN last.ret.json
                    /\ n \in DOMAIN last.ret.json.items
                    /\ "error" \in DOMAIN last.ret.json.items[n]

C20_ServerModuleList ==
    (last.op = "process_text" /\ last.names # << >>) =>
        LET language == IF last.lang = NoLang THEN "en-US" ELSE last.lang
            registered == {k \in DOMAIN last.names : last.names[k] \in Keys(modules)}
            able == {k \in registered :
                        language \in supported_languages(Get(modules, last.names[k]))}
            np == Len(last.processed)
            raising == {k \in DOMAIN last.processed :
                           last.processed[k].outcome.kind = "raise"}
        IN  /\ \A k \in DOMAIN last.asked :
                  \E i \in registered : last.asked[k].inst = Get(modules, last.names[i])
            /\ \A k \in DOMAIN last.processed :
                  \E i \in able :
                     /\ last.processed[k].name = last.names[i]
                     /\ Cardinality({h \in able : h < i}) = k - 1
            /\ raising \subseteq {np}
            /\ raising # {} =>
                  last.ret = Response(500,
                                ErrorDict(Str(last.processed[np].outcome.exc)))
            /\ raising = {} =>
                  /\ np = Cardinality(able)
                  /\ last.ret.status = 200
                  /\ last.ret.json.py = "dict"
                  /\ DOMAIN last.ret.json.items = Elems(last.names)
                  /\ \A k \in DOMAIN last.names :
                        LET n == last.names[k]
                        IN  last.ret.json.items[n] =
                              IF k \notin registered THEN NotFoundEntry(n)
                              ELSE IF k \notin able THEN PyNone
                              ELSE (CHOOSE p \in Elems(last.processed) :
                                       p.name = n).outcome.val

C20_Witness ==
    /\ last.op = "process_text"
    /\ Len(last.names) >= 2
    /\ last.names[1] \notin Keys(modules)
    /\ Len(last.processed) >= 1
    /\ last.processed[Len(last.processed)].outcome.kind = "raise"
    /\ last.ret.status = 500
    /\ "error" \in DOMAIN last.ret.json

(* C21: the initialized flag is monotonic.  Once it is true no operation   *)
(* makes it false again: not a later initialize_all that fails, not        *)
(* register, not unregister; and a run_all or run_module made while it is  *)
(* true passes the guard (it does not raise the not-initialized error).    *)
C21_InitializedMonotonic ==
    [][initialized =>
          /\ initialized'
          /\ last'.op \in {"run_all", "run_module"} =>
                last'.raised # NotInitializedError]_vars

C21_Witness ==
    /\ initialized
    /\ last.op = "initialize_all"
    /\ last.raised # NoExc
    /\ last.ret = NoValue
    /\ Len(modules) >= 1

====
